---------------------------- MODULE Spec2Model ----------------------------
(***************************************************************************)
(* A model of the imagery API repository:                                  *)
(*   - to_osgb36, the British National Grid reference decoder (geo.py);    *)
(*   - tile_gdf, the spatial partitioner (update_data/main.py);            *)
(*   - get_tile, the tile endpoint (imagery_api/main.py);                  *)
(*   - main / ingest_data / request_tile, the harvest run                  *)
(*     (update_data/main.py).                                              *)
(* The four components share no state.  Each has its own specification     *)
(* (SpecDecode, SpecPartition, SpecTile, SpecHarvest) in which the other   *)
(* components stay idle; Spec is their union.                              *)
(***************************************************************************)
EXTENDS Integers, Sequences, FiniteSets, TLC

VARIABLES
    gridref,        \* to_osgb36: the argument
    decoded,        \* to_osgb36: the outcome (a tuple or a raised BNGError)
    gdf,            \* tile_gdf: the boundary, a set of rectangles
    side_length,    \* tile_gdf: argument
    origin,         \* tile_gdf: <<origin_x, origin_y>>
    filter_empty,   \* tile_gdf: argument
    box_gdf,        \* tile_gdf: the returned cells
    cogs,           \* get_tile: the *.tif files of data/cogs, in glob order
    request,        \* get_tile: <<z, x, y>>
    sampled,        \* get_tile: what src.read returned
    response,       \* get_tile: what the endpoint answered
    hpc,            \* harvest: position of main()
    catalog,        \* harvest: what the catalog holds for each cell
    tasks,          \* harvest: state of each cell's request_tile task
    completed,      \* harvest: finished tasks not yet awaited, oldest first
    response_dfs,   \* harvest: ingest_data's response_dfs
    products_df,    \* harvest: main's products_df / products_gdf
    index_file,     \* harvest: data/products-index.parquet
    writes          \* harvest: number of writes of the index file

decodeVars == <<gridref, decoded>>
partitionVars == <<gdf, side_length, origin, filter_empty, box_gdf>>
tileVars == <<cogs, request, sampled, response>>
harvestVars == <<hpc, catalog, tasks, completed, response_dfs, products_df,
                 index_file, writes>>
vars == <<gridref, decoded, gdf, side_length, origin, filter_empty, box_gdf,
          cogs, request, sampled, response, hpc, catalog, tasks, completed,
          response_dfs, products_df, index_file, writes>>

Idle == "idle"
Pending == "pending"

RECURSIVE Pow(_, _)
Pow(b, e) == IF e = 0 THEN 1 ELSE b * Pow(b, e - 1)

Range(s) == {s[k] : k \in 1..Len(s)}

(***************************************************************************)
(*                      geo.py : to_osgb36                                 *)
(***************************************************************************)

UpperLetters == <<"A","B","C","D","E","F","G","H","I","J","K","L","M",
                  "N","O","P","Q","R","S","T","U","V","W","X","Y","Z">>
LowerLetters == <<"a","b","c","d","e","f","g","h","i","j","k","l","m",
                  "n","o","p","q","r","s","t","u","v","w","x","y","z">>
DigitChars == <<"0","1","2","3","4","5","6","7","8","9">>

\* str.upper() on one character and on a string (a sequence of characters).
UpperChar(c) ==
    IF c \in Range(LowerLetters)
    THEN UpperLetters[CHOOSE k \in 1..26 : LowerLetters[k] = c]
    ELSE c

StrUpper(s) == [k \in 1..Len(s) |-> UpperChar(s[k])]

\* The regular expression's character classes [A-Z] and \d.
IsAZ(c) == c \in Range(UpperLetters)
IsDigit(c) == c \in Range(DigitChars)

\* Python's $ : the end of the string, or just before a newline that ends it.
DollarAt(s, pos) ==
    \/ pos = Len(s) + 1
    \/ pos = Len(s) /\ s[pos] = "\n"

\* ^([A-Z]{2})(\d{n})$ for one alternative n of the pattern.
MatchesWith(s, n) ==
    /\ Len(s) >= 2 + n
    /\ IsAZ(s[1]) /\ IsAZ(s[2])
    /\ \A k \in 3..(2 + n) : IsDigit(s[k])
    /\ DollarAt(s, 3 + n)

\* re.match(pattern, gridref) and match.groups().
ReMatch(s) ==
    IF \E n \in {4, 6, 8, 10} : MatchesWith(s, n)
    THEN LET n == CHOOSE n \in {4, 6, 8, 10} : MatchesWith(s, n)
         IN  [matched |-> TRUE, region |-> s[1] \o s[2],
              coords |-> SubSeq(s, 3, 2 + n)]
    ELSE [matched |-> FALSE, region |-> "", coords |-> <<>>]

\* int() of a run of decimal digits.
RECURSIVE IntOf(_)
IntOf(ds) ==
    IF ds = <<>> THEN 0
    ELSE 10 * IntOf(SubSeq(ds, 1, Len(ds) - 1))
         + (CHOOSE v \in 0..9 : DigitChars[v + 1] = ds[Len(ds)])

\* Region codes for 100 km grid squares, as written: north row first.
regions ==
    << <<"HL", "HM", "HN", "HO", "HP", "JL", "JM">>,
       <<"HQ", "HR", "HS", "HT", "HU", "JQ", "JR">>,
       <<"HV", "HW", "HX", "HY", "HZ", "JV", "JW">>,
       <<"NA", "NB", "NC", "ND", "NE", "OA", "OB">>,
       <<"NF", "NG", "NH", "NJ", "NK", "OF", "OG">>,
       <<"NL", "NM", "NN", "NO", "NP", "OL", "OM">>,
       <<"NQ", "NR", "NS", "NT", "NU", "OQ", "OR">>,
       <<"NV", "NW", "NX", "NY", "NZ", "OV", "OW">>,
       <<"SA", "SB", "SC", "SD", "SE", "TA", "TB">>,
       <<"SF", "SG", "SH", "SJ", "SK", "TF", "TG">>,
       <<"SL", "SM", "SN", "SO", "SP", "TL", "TM">>,
       <<"SQ", "SR", "SS", "ST", "SU", "TQ", "TR">>,
       <<"SV", "SW", "SX", "SY", "SZ", "TV", "TW">> >>

\* A mutant of RegionsTransposed: the rows are not reversed before the
\* transpose.
RegionsTransposedNoReverse ==
    [i \in 1..Len(regions[1]) |-> [j \in 1..Len(regions) |-> regions[j][i]]]

\* list(zip(*regions[::-1])): element [i][j] is column i of row j counted
\* from the last row (indices from 1 here, from 0 in the source).
RegionsTransposed ==
    [i \in 1..Len(regions[1]) |->
        [j \in 1..Len(regions) |-> regions[Len(regions) - j + 1][i]]]

\* offset_map: region -> (1e5 * i, 1e5 * j), i and j counted from 0.
offset_map ==
    LET t == RegionsTransposed
        keys == {t[i][j] : i \in 1..Len(t), j \in 1..Len(t[1])}
    IN  [r \in keys |->
            LET ij == CHOOSE ij \in (1..Len(t)) \X (1..Len(t[1])) :
                          t[ij[1]][ij[2]] = r
            IN  <<100000 * (ij[1] - 1), 100000 * (ij[2] - 1)>>]

\* A mutant of Resolution: the resolution of the last digit given.
ResolutionOfLastDigit(half_figs) == Pow(10, 5 - half_figs)

\* resolution = 10 ** (6 - half_figs)
Resolution(half_figs) == Pow(10, 6 - half_figs)

\* scale_factor = 10 ** (5 - half_figs)
ScaleFactor(half_figs) == Pow(10, 5 - half_figs)

BNGError(kind) == [kind |-> kind, x |-> 0, y |-> 0, resolution |-> 0]

\* to_osgb36(gridref).  The first two BNGErrors carry bad_input_message
\* (InvalidFormat), the third 'Invalid 100 km grid square code'
\* (UnknownRegion).
to_osgb36(g) ==
    IF ~g.isStr THEN BNGError("InvalidFormat")
    ELSE LET match == ReMatch(StrUpper(g.chars)) IN
         IF ~match.matched THEN BNGError("InvalidFormat")
         ELSE IF match.region \notin DOMAIN offset_map
              THEN BNGError("UnknownRegion")
         ELSE LET coords == match.coords
                  half_figs == Len(coords) \div 2
                  easting == IntOf(SubSeq(coords, 1, half_figs))
                  northing == IntOf(SubSeq(coords, half_figs + 1, Len(coords)))
                  off == offset_map[match.region]
              IN  [kind |-> "ok",
                   x |-> easting * ScaleFactor(half_figs) + off[1],
                   y |-> northing * ScaleFactor(half_figs) + off[2],
                   resolution |-> Resolution(half_figs)]

NotAString == [isStr |-> FALSE, chars |-> <<>>]

\* The arguments tried: a two-character prefix, two runs of digits and a
\* tail, or a value that is not a string.
FirstChars == {"H", "J", "N", "O", "S", "T", "Z", "n", "1"}
SecondChars == Range(UpperLetters) \cup {"t", "5"}
DigitRuns ==
    { <<>>, <<"0">>, <<"2","7">>, <<"4","3","1">>, <<"3","9","2">>,
      <<"2","7","5","5">>, <<"2","7","5","5","0">>, <<"7","2","9","5","0">>,
      <<"1","2","3","4","5","6">> }
Tails == { <<>>, <<"\n">>, <<"x">> }

GridrefInputs ==
    { [isStr |-> TRUE, chars |-> <<a, b>> \o e \o n \o t] :
        a \in FirstChars, b \in SecondChars, e \in DigitRuns,
        n \in DigitRuns, t \in Tails }
    \cup { NotAString }

DecodeIdle == gridref = NotAString /\ decoded = BNGError(Idle)

InitDecode == gridref \in GridrefInputs /\ decoded = BNGError(Pending)

CallToOsgb36 ==
    /\ decoded.kind = Pending
    /\ decoded' = to_osgb36(gridref)
    /\ UNCHANGED gridref

(***************************************************************************)
(*                 update_data/main.py : tile_gdf                          *)
(* A rectangle is <<minx, miny, maxx, maxy>>.  The boundary is a set of    *)
(* rectangles of positive area, in the tile CRS (after gdf.to_crs).        *)
(***************************************************************************)

MaxCoord == 2
MaxSide == 3

Min(S) == CHOOSE v \in S : \A w \in S : v <= w
Max(S) == CHOOSE v \in S : \A w \in S : v >= w

\* gdf.total_bounds
TotalBounds(g) ==
    << Min({r[1] : r \in g}), Min({r[2] : r \in g}),
       Max({r[3] : r \in g}), Max({r[4] : r \in g}) >>

\* "conform the bounding box to the side_length".  % is Python's (numpy's)
\* modulo: the result has the sign of side_length.
ExpandedBounds(bounds, s) ==
    << bounds[1] - (bounds[1] % s),
       bounds[2] - (bounds[2] % s),
       bounds[3] + (s - (bounds[3] % s)),
       bounds[4] + (s - (bounds[4] % s)) >>

\* A mutant of Arange: the stop value is included.
ArangeInclusive(start, stop, step) ==
    [k \in 1..((stop - start) \div step + 1) |-> start + (k - 1) * step]

\* np.arange(start, stop, step), step > 0: ceil((stop - start) / step) values.
Arange(start, stop, step) ==
    LET n == IF stop > start THEN (stop - start + step - 1) \div step ELSE 0
    IN  [k \in 1..n |-> start + (k - 1) * step]

\* np.meshgrid(x, y), flatten(), and the boxes built from the grid points:
\* row-major, x running fastest.
GridBoxes(x, y, s) ==
    [k \in 1..(Len(x) * Len(y)) |->
        LET xmin == x[((k - 1) % Len(x)) + 1]
            ymin == y[((k - 1) \div Len(x)) + 1]
        IN  <<xmin, ymin, xmin + s, ymin + s>>]

\* shapely intersects for two closed rectangles (touching counts).
Intersects(a, b) ==
    a[1] <= b[3] /\ b[1] <= a[3] /\ a[2] <= b[4] /\ b[2] <= a[4]

\* df[mask]: the rows whose index is in keep, in their order.
SelectRows(df, keep) ==
    [n \in 1..Cardinality(keep) |->
        df[CHOOSE i \in keep : Cardinality({j \in keep : j <= i}) = n]]

\* box_gdf[box_gdf.intersects(gdf.union_all())]
FilterBoxes(boxes, g) ==
    SelectRows(boxes, {k \in 1..Len(boxes) :
                          \E r \in g : Intersects(boxes[k], r)})

\* tile_gdf(gdf, side_length, tile_crs, origin_x, origin_y, filter_empty).
\* origin_x and origin_y are not read by the body.
tile_gdf(g, s, origin_x, origin_y, filter) ==
    LET e == ExpandedBounds(TotalBounds(g), s)
        x == Arange(e[1], e[3], s)
        y == Arange(e[2], e[4], s)
        boxes == GridBoxes(x, y, s)
    IN  IF filter THEN FilterBoxes(boxes, g) ELSE boxes

Coords == (0 - MaxCoord)..MaxCoord
Rects == { <<x1, y1, x2, y2>> : x1 \in Coords, y1 \in Coords,
                               x2 \in Coords, y2 \in Coords }
Mainland == { r \in Rects : r[1] < r[3] /\ r[2] < r[4] }
\* A second part of the boundary, away from the first.
Islands == { <<4, 3, 5, 6>>, <<-5, 0, -4, 1>>, <<0, -5, 3, -4>> }
\* The origins passed: the default and two others.
Origins == { <<0, 0>>, <<1, 0>>, <<2, 1>> }

Boundaries == { {m} : m \in Mainland }
              \cup { {m, i} : m \in Mainland, i \in Islands }

NoBoxes == [state |-> Idle, cells |-> <<>>]

PartitionIdle ==
    /\ gdf = {} /\ side_length = 0 /\ origin = <<0, 0>>
    /\ filter_empty = FALSE /\ box_gdf = NoBoxes

InitPartition ==
    /\ gdf \in Boundaries
    /\ side_length \in 1..MaxSide
    /\ origin \in Origins
    /\ filter_empty \in BOOLEAN
    /\ box_gdf = [state |-> Pending, cells |-> <<>>]

CallTileGdf ==
    /\ box_gdf.state = Pending
    /\ box_gdf' = [state |-> "done",
                   cells |-> tile_gdf(gdf, side_length, origin[1], origin[2],
                                      filter_empty)]
    /\ UNCHANGED <<gdf, side_length, origin, filter_empty>>

(***************************************************************************)
(*                    imagery_api/main.py : get_tile                       *)
(* Of the image_size x image_size pixels, NumPixels are followed; every    *)
(* array operation of the endpoint is element-wise.                        *)
(***************************************************************************)

image_size == 256
NumPixels == 2
MaxZoom == 1
MaxCogs == 2

\* np.clip(data, 0, 255)
Clip(v) == IF v < 0 THEN 0 ELSE IF v > 255 THEN 255 ELSE v

\* .astype(np.uint8) of an integer
AsUint8(v) == v % 256

\* (data != 0).any(axis=0).astype(np.uint8) * 255, at one pixel
Mask(rgb) == IF \E b \in 1..3 : rgb[b] # 0 THEN (1 * 255) % 256 ELSE 0

\* A mutant of CompositePixel: the mask is taken from the values read, before
\* they are clipped.
CompositePixelMaskFirst(raw) ==
    [b \in 1..3 |-> AsUint8(Clip(raw[b]))] \o <<Mask(raw)>>

\* Lines 51-53 at one pixel: clip, convert, mask, concatenate.
CompositePixel(raw) ==
    LET data == [b \in 1..3 |-> AsUint8(Clip(raw[b]))]
    IN  data \o <<Mask(data)>>

\* Image.fromarray(...,"RGBA") of the composited array.
Composite(data) ==
    [size |-> image_size, px |-> [p \in 1..NumPixels |-> CompositePixel(data[p])]]

\* np.zeros((256, 256, 4), dtype=np.uint8) as an RGBA image.
BlankImage ==
    [size |-> 256, px |-> [p \in 1..NumPixels |-> <<0, 0, 0, 0>>]]

NoImage == [size |-> 0, px |-> <<>>]

\* The band values src.read can return at one pixel.
SampleTriples ==
    { <<0, 0, 0>>, <<-1, -1, -1>>, <<0, 0, 7>>, <<300, 0, 0>>,
      <<-5, 0, 0>>, <<255, 255, 255>>, <<256, -1, 0>> }

Sources == {"readable", "unreadable"}

RECURSIVE SeqsUpTo(_, _)
SeqsUpTo(S, n) ==
    IF n = 0 THEN {<<>>}
    ELSE LET shorter == SeqsUpTo(S, n - 1)
         IN  shorter \cup { Append(q, v) : q \in shorter, v \in S }

Requests ==
    { <<z, x, y>> : z \in 0..MaxZoom, x \in 0..Pow(2, MaxZoom),
                    y \in 0..Pow(2, MaxZoom) }

NoResponse(state) ==
    [status |-> 0, state |-> state, media_type |-> "", inline |-> FALSE,
     image |-> NoImage]

TileIdle ==
    /\ cogs = <<>> /\ request = <<0, 0, 0>> /\ sampled = <<>>
    /\ response = NoResponse(Idle)

InitTile ==
    /\ cogs \in SeqsUpTo(Sources, MaxCogs)
    /\ request \in { r \in Requests : r[2] <= Pow(2, r[1]) /\ r[3] <= Pow(2, r[1]) }
    /\ sampled = <<>>
    /\ response = NoResponse(Pending)

\* list(tile_dir.glob("*.tif"))[0] with no file: IndexError, raised before
\* the try block is entered; the framework answers 500.
GetTileNoSource ==
    /\ response.state = Pending
    /\ cogs = <<>>
    /\ response' = [status |-> 500, state |-> "IndexError", media_type |-> "",
                    inline |-> FALSE, image |-> NoImage]
    /\ UNCHANGED <<cogs, request, sampled>>

\* The try block runs to its end on the first file found.
GetTileServed ==
    /\ response.state = Pending
    /\ cogs # <<>> /\ cogs[1] = "readable"
    /\ \E data \in [1..NumPixels -> SampleTriples] :
        /\ sampled' = data
        /\ response' = [status |-> 200, state |-> "served",
                        media_type |-> "image/png", inline |-> TRUE,
                        image |-> Composite(data)]
    /\ UNCHANGED <<cogs, request>>

\* Anything raised inside the try block (rio.open, from_bounds, src.read,
\* the compositing, the encoding) reaches the except clause.
GetTileFallback ==
    /\ response.state = Pending
    /\ cogs # <<>>
    /\ response' = [status |-> 200, state |-> "fallback",
                    media_type |-> "image/png", inline |-> FALSE,
                    image |-> BlankImage]
    /\ UNCHANGED <<cogs, request, sampled>>

(***************************************************************************)
(*      update_data/main.py : main, ingest_data, request_tile              *)
(* The cells are numbered 1..NumCells in submission order.  A dataframe is *)
(* a sequence of rows, a row a record.                                     *)
(***************************************************************************)

NumCells == 2

Cells == 1..NumCells

\* One record of a catalog response's "results": five nested sub-objects
\* and a flat field.
RawRow(tile, year) ==
    [uri |-> "u", product |-> [id |-> "p"], year |-> [id |-> year],
     resolution |-> [id |-> "r"], tile |-> [id |-> tile],
     label |-> [id |-> "l"]]

RowA == RawRow(<<"S","U","1","0","2","0">>, 2020)
RowB == RawRow(<<"S","U","1","0","2","0">>, 2021)
RowC == RawRow(<<"t","q","3","0","8","5","1","5">>, 2020)
RowBad == RawRow(<<"S","U","1","0","N","E">>, 2020)

\* The "results" a cell's request can bring back.
CellResults ==
    { <<>>, <<RowA>>, <<RowA, RowB>>, <<RowB, RowA>>, <<RowA, RowA>>,
      <<RowC>>, <<RowBad>> }

\* pd.concat(response_dfs, ignore_index=True)
RECURSIVE Concat(_)
Concat(dfs) == IF dfs = <<>> THEN <<>> ELSE Head(dfs) \o Concat(Tail(dfs))

\* parse_response on one row: each json column is replaced by its
\* sub-fields, named <column>_<sub-field>.
ParseResponseRow(r) ==
    [uri |-> r.uri, product_id |-> r.product.id, year_id |-> r.year.id,
     resolution_id |-> r.resolution.id, tile_id |-> r.tile.id,
     label_id |-> r.label.id]

parse_response(results_df) ==
    [k \in 1..Len(results_df) |-> ParseResponseRow(results_df[k])]

\* A mutant of DropDuplicated: only a row equal to the one just before it
\* is dropped.
DropAdjacentDuplicated(df) ==
    SelectRows(df, {k \in 1..Len(df) : k = 1 \/ df[k - 1] # df[k]})

\* products_df[~products_df.duplicated()]: a row is kept unless an equal
\* row comes before it.
DropDuplicated(df) ==
    SelectRows(df, {k \in 1..Len(df) : \A j \in 1..(k - 1) : df[j] # df[k]})

Decode(row) == to_osgb36([isStr |-> TRUE, chars |-> row.tile_id])

\* parse_geometry raises when to_osgb36 raises on a row.
ParseGeometryRaises(df) == \E k \in 1..Len(df) : Decode(df[k]).kind # "ok"

\* parse_geometry: box(x, y, x + resolution / 2, y + resolution / 2).
parse_geometry(df) ==
    [k \in 1..Len(df) |->
        LET d == Decode(df[k])
            half == d.resolution \div 2
        IN  [uri |-> df[k].uri, product_id |-> df[k].product_id,
             year_id |-> df[k].year_id, resolution_id |-> df[k].resolution_id,
             tile_id |-> df[k].tile_id, label_id |-> df[k].label_id,
             geometry |-> <<d.x, d.y, d.x + half, d.y + half>>]]

\* A mutant of AwaitRaises: the failure of a request is swallowed.
AwaitNeverRaises(c) == FALSE

\* `await future` raises what the task raised: response.raise_for_status()
\* on a non-success response.
AwaitRaises(c) == tasks[c] = "failed"

\* A mutant of CancelAllTasks: the tasks are left as they are.
CancelNoTask(t) == t

\* asyncio.run, on its way out, cancels every task that is not finished.
CancelAllTasks(t) ==
    [c \in DOMAIN t |-> IF t[c] = "inflight" THEN "cancelled" ELSE t[c]]

NoFile == [exists |-> FALSE, rows |-> <<>>]

HarvestIdle ==
    /\ hpc = Idle /\ catalog = <<>> /\ tasks = <<>> /\ completed = <<>>
    /\ response_dfs = <<>> /\ products_df = <<>> /\ index_file = NoFile
    /\ writes = 0

InitHarvest ==
    /\ hpc = "start"
    /\ catalog \in [Cells -> CellResults]
    /\ tasks = [c \in Cells |-> "notstarted"]
    /\ completed = <<>>
    /\ response_dfs = <<>>
    /\ products_df = <<>>
    /\ index_file = NoFile
    /\ writes = 0

\* main up to the loop of ingest_data: the cells are made, the session
\* opened and asyncio.as_completed schedules one request_tile per cell.
StartIngest ==
    /\ hpc = "start"
    /\ tasks' = [c \in Cells |-> "inflight"]
    /\ hpc' = "gathering"
    /\ UNCHANGED <<catalog, completed, response_dfs, products_df, index_file,
                   writes>>

\* request_tile of one cell gets a success response and returns its rows.
RequestSucceeds(c) ==
    /\ hpc \in {"gathering", "raising"}
    /\ tasks[c] = "inflight"
    /\ tasks' = [tasks EXCEPT ![c] = "done"]
    /\ completed' = Append(completed, c)
    /\ UNCHANGED <<hpc, catalog, response_dfs, products_df, index_file, writes>>

\* request_tile of one cell gets a non-success response: raise_for_status.
RequestFails(c) ==
    /\ hpc \in {"gathering", "raising"}
    /\ tasks[c] = "inflight"
    /\ tasks' = [tasks EXCEPT ![c] = "failed"]
    /\ completed' = Append(completed, c)
    /\ UNCHANGED <<hpc, catalog, response_dfs, products_df, index_file, writes>>

\* One turn of the loop over as_completed: the oldest finished task is
\* awaited; its rows are appended, or what it raised leaves ingest_data.
AwaitNext ==
    /\ hpc = "gathering"
    /\ completed # <<>>
    /\ LET c == Head(completed) IN
        IF AwaitRaises(c)
        THEN /\ hpc' = "raising"
             /\ UNCHANGED response_dfs
        ELSE /\ response_dfs' =
                    Append(response_dfs,
                           IF tasks[c] = "done" THEN catalog[c] ELSE <<>>)
             /\ UNCHANGED hpc
    /\ completed' = Tail(completed)
    /\ UNCHANGED <<catalog, tasks, products_df, index_file, writes>>

\* After the loop: pd.concat and parse_response.  With no row at all the
\* concatenated frame has no column and parse_response raises KeyError.
ParseResponses ==
    /\ hpc = "gathering"
    /\ Len(response_dfs) = NumCells
    /\ IF Concat(response_dfs) = <<>>
       THEN hpc' = "raising" /\ UNCHANGED products_df
       ELSE /\ products_df' = parse_response(Concat(response_dfs))
            /\ hpc' = "ingested"
    /\ UNCHANGED <<catalog, tasks, completed, response_dfs, index_file, writes>>

\* The run is interrupted while the event loop runs.
InterruptIngest ==
    /\ hpc = "gathering"
    /\ hpc' = "raising"
    /\ UNCHANGED <<catalog, tasks, completed, response_dfs, products_df,
                   index_file, writes>>

\* An exception leaves asyncio.run, which cancels the unfinished tasks
\* before it re-raises; main ends without reaching to_parquet.
RunAborts ==
    /\ hpc = "raising"
    /\ tasks' = CancelAllTasks(tasks)
    /\ hpc' = "failed"
    /\ UNCHANGED <<catalog, completed, response_dfs, products_df, index_file,
                   writes>>

\* products_df = products_df[~products_df.duplicated()]
DropDuplicates ==
    /\ hpc = "ingested"
    /\ products_df' = DropDuplicated(products_df)
    /\ hpc' = "deduped"
    /\ UNCHANGED <<catalog, tasks, completed, response_dfs, index_file, writes>>

\* products_gdf = parse_geometry(products_df)
ParseGeometry ==
    /\ hpc = "deduped"
    /\ IF ParseGeometryRaises(products_df)
       THEN hpc' = "failed" /\ UNCHANGED products_df
       ELSE hpc' = "geolocated" /\ products_df' = parse_geometry(products_df)
    /\ UNCHANGED <<catalog, tasks, completed, response_dfs, index_file, writes>>

\* The run is interrupted outside the event loop, before to_parquet.
InterruptMain ==
    /\ hpc \in {"start", "ingested", "deduped", "geolocated"}
    /\ hpc' = "failed"
    /\ UNCHANGED <<catalog, tasks, completed, response_dfs, products_df,
                   index_file, writes>>

\* products_gdf.to_parquet(output_path)
Persist ==
    /\ hpc = "geolocated"
    /\ index_file' = [exists |-> TRUE, rows |-> products_df]
    /\ writes' = writes + 1
    /\ hpc' = "done"
    /\ UNCHANGED <<catalog, tasks, completed, response_dfs, products_df>>

(***************************************************************************)
(*                         Specifications                                  *)
(***************************************************************************)

DecodeStep == CallToOsgb36 /\ UNCHANGED <<partitionVars, tileVars, harvestVars>>

PartitionStep == CallTileGdf /\ UNCHANGED <<decodeVars, tileVars, harvestVars>>

TileNoSourceStep ==
    GetTileNoSource /\ UNCHANGED <<decodeVars, partitionVars, harvestVars>>
TileServedStep ==
    GetTileServed /\ UNCHANGED <<decodeVars, partitionVars, harvestVars>>
TileFallbackStep ==
    GetTileFallback /\ UNCHANGED <<decodeVars, partitionVars, harvestVars>>

NextTile == TileNoSourceStep \/ TileServedStep \/ TileFallbackStep

HarvestOthers == UNCHANGED <<decodeVars, partitionVars, tileVars>>
StartIngestStep == StartIngest /\ HarvestOthers
RequestSucceedsStep == (\E c \in Cells : RequestSucceeds(c)) /\ HarvestOthers
RequestFailsStep == (\E c \in Cells : RequestFails(c)) /\ HarvestOthers
AwaitNextStep == AwaitNext /\ HarvestOthers
ParseResponsesStep == ParseResponses /\ HarvestOthers
InterruptIngestStep == InterruptIngest /\ HarvestOthers
RunAbortsStep == RunAborts /\ HarvestOthers
DropDuplicatesStep == DropDuplicates /\ HarvestOthers
ParseGeometryStep == ParseGeometry /\ HarvestOthers
InterruptMainStep == InterruptMain /\ HarvestOthers
PersistStep == Persist /\ HarvestOthers

NextHarvest ==
    \/ StartIngestStep
    \/ RequestSucceedsStep
    \/ RequestFailsStep
    \/ AwaitNextStep
    \/ ParseResponsesStep
    \/ InterruptIngestStep
    \/ RunAbortsStep
    \/ DropDuplicatesStep
    \/ ParseGeometryStep
    \/ InterruptMainStep
    \/ PersistStep

InitDecodeOnly == InitDecode /\ PartitionIdle /\ TileIdle /\ HarvestIdle
InitPartitionOnly == InitPartition /\ DecodeIdle /\ TileIdle /\ HarvestIdle
InitTileOnly == InitTile /\ DecodeIdle /\ PartitionIdle /\ HarvestIdle
InitHarvestOnly == InitHarvest /\ DecodeIdle /\ PartitionIdle /\ TileIdle

SpecDecode == InitDecodeOnly /\ [][DecodeStep]_vars

SpecPartition == InitPartitionOnly /\ [][PartitionStep]_vars

SpecTile == InitTileOnly /\ [][NextTile]_vars

SpecHarvest == InitHarvestOnly /\ [][NextHarvest]_vars

Init ==
    InitDecodeOnly \/ InitPartitionOnly \/ InitTileOnly \/ InitHarvestOnly

Next == DecodeStep \/ PartitionStep \/ NextTile \/ NextHarvest

Spec == Init /\ [][Next]_vars

(***************************************************************************)
(*                              Claims                                     *)
(***************************************************************************)

Answered == response.state \notin {Idle, Pending}
Decoded == decoded.kind \notin {Idle, Pending}
Tiled == box_gdf.state = "done"

\* C1: whatever fails while the raster source is located, read or
\* composited, the case of no raster source at all included, the endpoint
\* answers with success and a fully transparent image; no failure leaves
\* the endpoint.
C1_FailureGivesTransparentTile ==
    (Answered /\ response.state # "served") =>
        /\ response.status = 200
        /\ response.media_type = "image/png"
        /\ response.image = BlankImage

\* C2: the index is written at most once, and only when every request has
\* succeeded and merging, de-duplication and decoding are done; when a
\* request fails or the run is interrupted, nothing is written.
C2_IndexWrittenOnceAfterCompletion ==
    /\ writes <= 1
    /\ index_file.exists <=> writes = 1
    /\ writes = 1 =>
        /\ hpc = "done"
        /\ \A c \in Cells : tasks[c] = "done"
        /\ Len(response_dfs) = NumCells
        /\ completed = <<>>
        /\ ~ParseGeometryRaises(DropDuplicated(parse_response(Concat(response_dfs))))
        /\ index_file.rows =
             parse_geometry(DropDuplicated(parse_response(Concat(response_dfs))))
    /\ (\E c \in Cells : tasks[c] \in {"failed", "cancelled"}) => writes = 0
    /\ hpc \in {"raising", "failed"} => writes = 0

C2_Witness ==
    /\ hpc = "done" /\ writes = 1
    /\ Len(index_file.rows) >= 2
    /\ \A c \in Cells : tasks[c] = "done"

\* Where a region code stands in the lattice as printed: column i from the
\* west and row j from the south, both from 0.
LatticeCodes == {regions[r][c] : r \in 1..13, c \in 1..7}
ColumnOf(code) == CHOOSE i \in 0..6 : \E j \in 0..12 : regions[13 - j][i + 1] = code
RowOf(code) == CHOOSE j \in 0..12 : \E i \in 0..6 : regions[13 - j][i + 1] = code

\* The argument is a string of two capitals then digits only.
LettersThenDigits ==
    /\ gridref.isStr
    /\ Len(gridref.chars) >= 2
    /\ IsAZ(gridref.chars[1]) /\ IsAZ(gridref.chars[2])
    /\ \A k \in 3..Len(gridref.chars) : IsDigit(gridref.chars[k])

\* C3: a known region code followed by 2n digits, n in 2..5, decodes to
\* easting = first n digits * 10^(5-n) + 100000 * column, northing = last n
\* digits * 10^(5-n) + 100000 * row, resolution = 10^(6-n).
C3_DecodesByLattice ==
    (/\ Decoded
     /\ LettersThenDigits
     /\ Len(gridref.chars) \in {6, 8, 10, 12}
     /\ gridref.chars[1] \o gridref.chars[2] \in LatticeCodes) =>
        LET code == gridref.chars[1] \o gridref.chars[2]
            n == (Len(gridref.chars) - 2) \div 2
            first == IntOf(SubSeq(gridref.chars, 3, 2 + n))
            last == IntOf(SubSeq(gridref.chars, 3 + n, 2 + 2 * n))
        IN  decoded =
              [kind |-> "ok",
               x |-> first * Pow(10, 5 - n) + 100000 * ColumnOf(code),
               y |-> last * Pow(10, 5 - n) + 100000 * RowOf(code),
               resolution |-> Pow(10, 6 - n)]

C3_Witness ==
    /\ gridref.chars = <<"H","U","4","3","1","3","9","2">>
    /\ decoded = [kind |-> "ok", x |-> 443100, y |-> 1139200,
                  resolution |-> 1000]

NT2755072950 == <<"N","T","2","7","5","5","0","7","2","9","5","0">>

\* C4 as amended: "NT2755072950" decodes to easting 327550, northing 672950
\* and resolution 10.
C4_DecodesNT10Fig ==
    (Decoded /\ gridref.isStr /\ gridref.chars = NT2755072950) =>
        decoded = [kind |-> "ok", x |-> 327550, y |-> 672950,
                   resolution |-> 10]

\* C4 as stated: "NT2755072950" decodes to (327550, 672950, 1).
C4_Original ==
    (Decoded /\ gridref.isStr /\ gridref.chars = NT2755072950) =>
        decoded = [kind |-> "ok", x |-> 327550, y |-> 672950,
                   resolution |-> 1]

C4_Witness ==
    /\ gridref.isStr /\ gridref.chars = NT2755072950
    /\ decoded.kind = "ok" /\ decoded.x = 327550

\* C5: InvalidFormat exactly when the argument is not a string or, in upper
\* case, is not two letters and then exactly 4, 6, 8 or 10 digits; for a
\* well-formed argument UnknownRegion exactly when the prefix is not a code
\* of the table; success in every other case.
C5_ErrorKinds ==
    Decoded =>
        LET u == StrUpper(gridref.chars)
            wellFormed ==
                /\ gridref.isStr
                /\ Len(u) \in {6, 8, 10, 12}
                /\ IsAZ(u[1]) /\ IsAZ(u[2])
                /\ \A k \in 3..Len(u) : IsDigit(u[k])
            known == u[1] \o u[2] \in LatticeCodes
        IN  /\ decoded.kind = "InvalidFormat" <=> ~wellFormed
            /\ wellFormed => (decoded.kind = "UnknownRegion" <=> ~known)
            /\ decoded.kind = "ok" <=> (wellFormed /\ known)

\* The expanded bounding box of the call.
Expanded == ExpandedBounds(TotalBounds(gdf), side_length)

InteriorsMeet(a, b) ==
    a[1] < b[3] /\ b[1] < a[3] /\ a[2] < b[4] /\ b[2] < a[4]

CeilDiv(a, b) == (a + b - 1) \div b

\* C6: without filtering, the cells are squares of side side_length, their
\* interiors are pairwise disjoint, their union is the expanded bounding
\* box (each lies in it and their areas add up to its area), and there are
\* ceil(width / s) * ceil(height / s) of them.
C6_CellsTileExpandedBox ==
    (Tiled /\ ~filter_empty) =>
        LET e == Expanded
            s == side_length
            cells == box_gdf.cells
            n == Len(cells)
        IN  /\ \A k \in 1..n :
                /\ cells[k][3] - cells[k][1] = s
                /\ cells[k][4] - cells[k][2] = s
                /\ e[1] <= cells[k][1] /\ cells[k][3] <= e[3]
                /\ e[2] <= cells[k][2] /\ cells[k][4] <= e[4]
            /\ \A k \in 1..n : \A l \in (k + 1)..n :
                ~InteriorsMeet(cells[k], cells[l])
            /\ n * s * s = (e[3] - e[1]) * (e[4] - e[2])
            /\ n = CeilDiv(e[3] - e[1], s) * CeilDiv(e[4] - e[2], s)

C6_Witness ==
    /\ Tiled /\ ~filter_empty
    /\ side_length = 3
    /\ TotalBounds(gdf) = <<-2, -1, 5, 6>>
    /\ Len(box_gdf.cells) = 12

\* C7: every edge of the expanded box differs from the origin by a multiple
\* of side_length, the expanded box contains the bounding box, and no edge
\* is moved by side_length or more (an edge on a multiple is not moved).
C7_AlignedToOrigin ==
    Tiled =>
        LET b == TotalBounds(gdf)
            e == Expanded
            s == side_length
        IN  /\ (e[1] - origin[1]) % s = 0 /\ (e[3] - origin[1]) % s = 0
            /\ (e[2] - origin[2]) % s = 0 /\ (e[4] - origin[2]) % s = 0
            /\ e[1] <= b[1] /\ b[3] <= e[3] /\ e[2] <= b[2] /\ b[4] <= e[4]
            /\ b[1] - e[1] < s /\ e[3] - b[3] < s
            /\ b[2] - e[2] < s /\ e[4] - b[4] < s

\* C8 as amended: in a tile served from a source, a pixel's alpha is 0
\* exactly when its three band values are 0 after clipping to [0, 255] and
\* conversion to 8-bit integers, and 255 otherwise; the colour bands are
\* the clipped values.
C8_AlphaFromClippedBands ==
    response.state = "served" =>
        \A p \in 1..NumPixels :
            LET px == response.image.px[p]
                allZero == \A b \in 1..3 : Clip(sampled[p][b]) = 0
            IN  /\ px[4] = IF allZero THEN 0 ELSE 255
                /\ \A b \in 1..3 : px[b] = Clip(sampled[p][b])

\* C8 as stated: alpha is 0 exactly when the three values sampled from the
\* source are 0, and 255 otherwise, whatever the sampled values.
C8_Original ==
    response.state = "served" =>
        \A p \in 1..NumPixels :
            response.image.px[p][4] =
                IF \A b \in 1..3 : sampled[p][b] = 0 THEN 0 ELSE 255

C8_Witness ==
    /\ response.state = "served"
    /\ sampled[1] = <<-5, 0, 0>> /\ response.image.px[1] = <<0, 0, 0, 0>>
    /\ sampled[2] = <<300, 0, 0>> /\ response.image.px[2] = <<255, 0, 0, 255>>

\* A row of the index without its derived geometry.
Flattened(r) ==
    [uri |-> r.uri, product_id |-> r.product_id, year_id |-> r.year_id,
     resolution_id |-> r.resolution_id, tile_id |-> r.tile_id,
     label_id |-> r.label_id]

\* C9: in whatever order the requests complete, the index a successful run
\* writes holds no two rows equal in all flattened columns, and its rows
\* are the distinct rows all the requests returned.
C9_IndexIsDistinctRows ==
    hpc = "done" =>
        LET rows == index_file.rows IN
        /\ \A k \in 1..Len(rows) : \A l \in (k + 1)..Len(rows) :
              Flattened(rows[k]) # Flattened(rows[l])
        /\ {Flattened(rows[k]) : k \in 1..Len(rows)} =
              UNION { {ParseResponseRow(catalog[c][k]) :
                          k \in 1..Len(catalog[c])} : c \in Cells }

\* Two cells return the same row among others, and the later cell's
\* request completes first.
C9_Witness ==
    /\ hpc = "done"
    /\ catalog[1] = <<RowA, RowB>> /\ catalog[2] = <<RowB, RowA>>
    /\ response_dfs[1] = catalog[2]
    /\ Len(index_file.rows) = 2

\* C10: once the run has ended no request is in flight; when it was
\* aborted with requests outstanding, nothing of what had completed is
\* merged or written.
C10_AbortCancelsOutstanding ==
    hpc \in {"failed", "done"} =>
        /\ \A c \in Cells : tasks[c] # "inflight"
        /\ (\E c \in Cells : tasks[c] = "cancelled") =>
              /\ products_df = <<>>
              /\ index_file = NoFile
              /\ writes = 0

C10_Witness ==
    /\ hpc = "failed"
    /\ \E c \in Cells : tasks[c] = "cancelled"
    /\ \E c \in Cells : tasks[c] = "done"
    /\ response_dfs # <<>>
    /\ index_file = NoFile
=============================================================================
